---- MODULE Spec2Model ----
(***************************************************************************)
(* Model of the Twitter gateway pipeline of src/index.py: the four stage   *)
(* scripts (fetch_tweets.py, analyze_tweets.py, send_notification.py) and  *)
(* the orchestrator run_workflow.py, with the two artifacts they hand over *)
(* (tweets_for_analysis.json, twitter_digest.md).                          *)
(*                                                                         *)
(* Text is modelled as TLA+ strings, one character per position, so that   *)
(* len(), slicing, split() and strip() are computed as Python computes     *)
(* them.                                                                   *)
(***************************************************************************)
EXTENDS Integers, Sequences, FiniteSets, TLC

VARIABLES
    \* run_workflow.py and the working directory
    pc,            \* position of run_full_workflow
    run,           \* number of the current invocation of run_workflow.py
    tweets_file,   \* tweets_for_analysis.json
    digest_file,   \* twitter_digest.md
    started,       \* the stage scripts started by the current run, in order
    returncode,    \* exit status of each stage script of the current run
    status_code,   \* HTTP status of the current run's fetch (0: no response)
    missing_input, \* stages of the current run started with their artifact absent
    scorer_read,   \* what load_tweets returned to the current run's analyze stage
    posted,        \* what the current run's notify stage posted to the webhook
    digest_after_score, \* whether twitter_digest.md existed when the analyze stage ended
    \* filter_tweets_by_engagement on its own
    f_tweets, f_min_likes, f_result,
    \* generate_digest on its own
    d_analyses, d_digest,
    \* analyze_tweet_relevance on its own
    s_tweet, s_response, s_result,
    \* send_to_discord on its own
    n_digest, n_payload

wfVars == <<pc, run, tweets_file, digest_file, started, returncode, status_code,
            missing_input, scorer_read, posted, digest_after_score>>
fVars == <<f_tweets, f_min_likes, f_result>>
dVars == <<d_analyses, d_digest>>
sVars == <<s_tweet, s_response, s_result>>
nVars == <<n_digest, n_payload>>
vars == <<wfVars, fVars, dVars, sVars, nVars>>

-----------------------------------------------------------------------------
(* Bounds of the model *)

MaxRuns == 2        \* invocations of run_workflow.py
MaxFetch == 2       \* tweets in one response of the list API
MaxTweets == 3      \* length of the input of filter_tweets_by_engagement
MaxAnalyses == 3    \* length of the input of generate_digest
MaxRespLen == 4     \* length of the free-form model responses
MaxNear == 3        \* digest lengths tried on each side of the Discord limit

(* Constants of the program *)

MIN_LIKES == 10
RelevanceCutoff == 7
DiscordLimit == 2000
HttpOk == 200
HttpNoContent == 204

-----------------------------------------------------------------------------
(* Python's str operations, on strings *)

\* Python evaluates an argument once, before the call. These apply F to the
\* value of the argument, so that an operator that reads its parameter
\* several times does not evaluate the argument expression each time.
Call1(F(_), a) == CHOOSE r \in {F(x) : x \in {a}} : TRUE
Call2(F(_, _), a, b) == CHOOSE r \in {F(x, y) : x \in {a}, y \in {b}} : TRUE

CharAt(s, i) == SubSeq(s, i, i)

\* s[:n]
Prefix(str, n) ==
    Call1(LAMBDA s : IF n >= Len(s) THEN s ELSE SubSeq(s, 1, n), str)

\* s[n:] with n counted from 0
Suffix(str, n) ==
    Call1(LAMBDA s : IF n >= Len(s) THEN "" ELSE SubSeq(s, n + 1, Len(s)), str)

\* s.find(sub) + 1: the 1-based position of the first occurrence, 0 when none
Find(str, substr) ==
    Call2(LAMBDA s, sub :
            IF \A p \in 1..(Len(s) - Len(sub) + 1) : SubSeq(s, p, p + Len(sub) - 1) # sub
            THEN 0
            ELSE CHOOSE p \in 1..(Len(s) - Len(sub) + 1) :
                    /\ SubSeq(s, p, p + Len(sub) - 1) = sub
                    /\ \A q \in 1..(p - 1) : SubSeq(s, q, q + Len(sub) - 1) # sub,
          str, substr)

Whitespace == {" ", "\n", "\t", "\r"}

RECURSIVE lstrip(_)
lstrip(str) ==
    Call1(LAMBDA s : IF s # "" /\ CharAt(s, 1) \in Whitespace
                     THEN lstrip(Suffix(s, 1)) ELSE s,
          str)

RECURSIVE rstrip(_)
rstrip(str) ==
    Call1(LAMBDA s : IF s # "" /\ CharAt(s, Len(s)) \in Whitespace
                     THEN rstrip(Prefix(s, Len(s) - 1)) ELSE s,
          str)

\* s.strip()
strip(s) == rstrip(lstrip(s))

\* s.split(sep)[0]
split_first(str, sep) ==
    Call1(LAMBDA s : Call1(LAMBDA p : IF p = 0 THEN s ELSE Prefix(s, p - 1),
                           Find(s, sep)),
          str)

\* s.split(sep)[1]: ok is FALSE where Python raises IndexError
split_second(str, sep) ==
    Call1(LAMBDA s : Call1(LAMBDA p :
                             IF p = 0 THEN [ok |-> FALSE, val |-> ""]
                             ELSE [ok |-> TRUE,
                                   val |-> split_first(Suffix(s, p + Len(sep) - 1), sep)],
                           Find(s, sep)),
          str)

Digits == {"0", "1", "2", "3", "4", "5", "6", "7", "8", "9"}

DigitValue(c) ==
    CASE c = "0" -> 0 [] c = "1" -> 1 [] c = "2" -> 2 [] c = "3" -> 3 [] c = "4" -> 4
      [] c = "5" -> 5 [] c = "6" -> 6 [] c = "7" -> 7 [] c = "8" -> 8 [] c = "9" -> 9

AllDigits(s) == s # "" /\ \A i \in 1..Len(s) : CharAt(s, i) \in Digits

RECURSIVE DecimalValue(_)
DecimalValue(str) ==
    Call1(LAMBDA s : IF s = "" THEN 0
                     ELSE 10 * DecimalValue(Prefix(s, Len(s) - 1))
                            + DigitValue(CharAt(s, Len(s))),
          str)

\* int(s): surrounding whitespace is ignored, one sign is accepted, the rest
\* must be decimal digits; ok is FALSE where Python raises ValueError.
\* (Underscores between digits and non-ASCII digits are outside the alphabets
\* used here.)
py_int(str) ==
    Call1(LAMBDA t :
            LET signed == t # "" /\ CharAt(t, 1) \in {"+", "-"}
                body == IF signed THEN Suffix(t, 1) ELSE t
            IN IF ~AllDigits(body) THEN [ok |-> FALSE, val |-> 0]
               ELSE [ok |-> TRUE,
                     val |-> IF signed /\ CharAt(t, 1) = "-" THEN 0 - DecimalValue(body)
                             ELSE DecimalValue(body)],
          strip(str))

-----------------------------------------------------------------------------
(* Items: the records of the list API *)

Tweet(id, name, text, likes, retweets) ==
    [id_str |-> id, user |-> [screen_name |-> name], full_text |-> text,
     favorite_count |-> likes, retweet_count |-> retweets]

TweetA == Tweet("101", "alice", "agents ship", 15, 4)
TweetB == Tweet("102", "bob", "lunch", 5, 0)
TweetC == Tweet("103", "carol", "llm evals", 10, 1)

TweetPool == {TweetA, TweetB, TweetC}

RECURSIVE SeqsUpTo(_, _)
SeqsUpTo(S, n) ==
    IF n = 0 THEN {<<>>}
    ELSE LET shorter == SeqsUpTo(S, n - 1)
         IN shorter \cup {Append(s, x) : s \in {t \in shorter : Len(t) = n - 1}, x \in S}

-----------------------------------------------------------------------------
(* fetch_tweets.py *)

\* fetch_list_tweets: the tweets of a 200 response, [] for any other status
fetch_list_tweets(status, data_tweets) ==
    IF status = HttpOk THEN data_tweets ELSE <<>>

\* a filter that wants more than min_likes likes
RECURSIVE filter_strictly_more(_, _)
filter_strictly_more(tweets, min_likes) ==
    Call1(LAMBDA ts :
            IF ts = <<>> THEN <<>>
            ELSE IF Head(ts).favorite_count > min_likes
                 THEN <<Head(ts)>> \o filter_strictly_more(Tail(ts), min_likes)
                 ELSE filter_strictly_more(Tail(ts), min_likes),
          tweets)

\* [tweet for tweet in tweets if tweet["favorite_count"] >= min_likes]
RECURSIVE filter_tweets_by_engagement(_, _)
filter_tweets_by_engagement(tweets, min_likes) ==
    Call1(LAMBDA ts :
            IF ts = <<>> THEN <<>>
            ELSE IF Head(ts).favorite_count >= min_likes
                 THEN <<Head(ts)>> \o filter_tweets_by_engagement(Tail(ts), min_likes)
                 ELSE filter_tweets_by_engagement(Tail(ts), min_likes),
          tweets)

-----------------------------------------------------------------------------
(* analyze_tweets.py *)

\* the try/except of analyze_tweet_relevance: the score read from the first
\* line of the response, 0 when any step of the parse raises
parse_score(analysis) ==
    Call1(LAMBDA after_colon :
            Call1(LAMBDA number : IF after_colon.ok /\ number.ok THEN number.val ELSE 0,
                  py_int(split_first(strip(after_colon.val), "/"))),
          split_second(strip(split_first(analysis, "\n")), ":"))

tweet_url(tweet) ==
    "https://twitter.com/" \o tweet.user.screen_name \o "/status/" \o tweet.id_str

\* analyze_tweet_relevance, given the model's response
analyze_tweet_relevance(tweet, analysis) ==
    Call2(LAMBDA t, a : [tweet |-> t, tweet_url |-> tweet_url(t),
                         score |-> parse_score(a), analysis |-> a],
          tweet, analysis)

\* a cutoff that leaves out the items scored exactly 7
RECURSIVE highly_relevant_above(_)
highly_relevant_above(analyses) ==
    Call1(LAMBDA as :
            IF as = <<>> THEN <<>>
            ELSE IF Head(as).score > RelevanceCutoff
                 THEN <<Head(as)>> \o highly_relevant_above(Tail(as))
                 ELSE highly_relevant_above(Tail(as)),
          analyses)

\* [a for a in analyses if a["score"] >= 7]
RECURSIVE highly_relevant(_)
highly_relevant(analyses) ==
    Call1(LAMBDA as :
            IF as = <<>> THEN <<>>
            ELSE IF Head(as).score >= RelevanceCutoff
                 THEN <<Head(as)>> \o highly_relevant(Tail(as))
                 ELSE highly_relevant(Tail(as)),
          analyses)

\* a descending sort that is not stable (an ascending sort, reversed): x goes
\* in front of the items of its own score
insert_position_before_equal(sorted, x) ==
    Cardinality({i \in 1..Len(sorted) : sorted[i].score > x.score})

\* where sorted(..., key=score, reverse=True) puts x among the already sorted
\* items: behind every item whose score is at least x's (the sort is stable)
insert_position(sorted, x) ==
    Cardinality({i \in 1..Len(sorted) : sorted[i].score >= x.score})

\* sorted(items, key=lambda x: x["score"], reverse=True)
RECURSIVE sorted_by_score_desc(_)
sorted_by_score_desc(items) ==
    Call1(LAMBDA its :
            IF its = <<>> THEN <<>>
            ELSE Call2(LAMBDA before, x :
                         Call1(LAMBDA k : SubSeq(before, 1, k) \o <<x>>
                                            \o SubSeq(before, k + 1, Len(before)),
                               insert_position(before, x)),
                       sorted_by_score_desc(SubSeq(its, 1, Len(its) - 1)),
                       its[Len(its)]),
          items)

relevant_tweets(analyses) == sorted_by_score_desc(highly_relevant(analyses))

NoRelevantSentinel == "No highly relevant tweets found in the latest batch."
DigestHeader == "# Relevant Twitter Content Digest\n\n"
SectionSeparator == "---\n\n"

\* the four lines the loop of generate_digest appends for one item
digest_section(item) ==
    Call1(LAMBDA it :
            "## @" \o it.tweet.user.screen_name \o ": " \o ToString(it.score)
                \o "/10 Relevance\n\n"
            \o it.tweet.full_text \o "\n\n"
            \o "[View Tweet](" \o it.tweet_url \o ")\n\n"
            \o SectionSeparator,
          item)

RECURSIVE render_sections(_)
render_sections(items) ==
    Call1(LAMBDA its :
            IF its = <<>> THEN ""
            ELSE digest_section(Head(its)) \o render_sections(Tail(its)),
          items)

\* a generate_digest without its `if not relevant_tweets` return
generate_digest_without_sentinel(analyses) ==
    DigestHeader \o render_sections(relevant_tweets(analyses))

generate_digest(analyses) ==
    Call1(LAMBDA relevant :
            IF relevant = <<>> THEN NoRelevantSentinel
            ELSE DigestHeader \o render_sections(relevant),
          relevant_tweets(analyses))

-----------------------------------------------------------------------------
(* send_notification.py *)

\* a description that also cuts a digest of exactly 2000 characters
embed_description_at_limit(digest) ==
    Call1(LAMBDA d : IF Len(d) >= DiscordLimit THEN Prefix(d, DiscordLimit) \o "..." ELSE d,
          digest)

\* the "description" of the payload of send_to_discord
embed_description(digest) ==
    Call1(LAMBDA d : IF Len(d) > DiscordLimit THEN Prefix(d, DiscordLimit) \o "..." ELSE d,
          digest)

-----------------------------------------------------------------------------
(* The working directory: one artifact is absent, or holds what a stage of   *)
(* run `writer` wrote to it.                                                 *)

NoTweetsFile == [exists |-> FALSE, content |-> <<>>, writer |-> 0]
NoDigestFile == [exists |-> FALSE, content |-> "", writer |-> 0]

\* open(name, "w") followed by the dump or write: the file is replaced
written(content, by) == [exists |-> TRUE, content |-> content, writer |-> by]

\* a run_full_workflow that starts send_notification.py without looking
path_exists_always(file) == TRUE

\* os.path.exists
path_exists(file) == file.exists

Stages == {"fetch_tweets.py", "analyze_tweets.py", "send_notification.py"}

NotRun == -1
NoRead == [done |-> FALSE, content |-> <<>>, writer |-> 0]
NoPost == [done |-> FALSE, description |-> "", writer |-> 0]

\* the responses the model gives in the pipeline runs
WorkflowResponses ==
    {"Score: 8/10\nOn topic.", "Score: 3/10\nOff topic.", "I cannot rate this."}

\* subprocess.run(argv, check=True): a failed stage ends the run
after_subprocess_run_checked(status, next) == IF status = 0 THEN next ELSE "aborted"

\* subprocess.run(argv) without check=True: run_full_workflow goes on to its
\* next statement whatever the exit status of the stage
after_subprocess_run(status, next) == next

-----------------------------------------------------------------------------
(* run_workflow.py *)

\* `python run_workflow.py`: run_full_workflow up to its first subprocess.run
StartWorkflow ==
    /\ pc \in {"idle", "complete"}
    /\ run < MaxRuns
    /\ run' = run + 1
    /\ pc' = "fetch"
    /\ started' = <<>>
    /\ returncode' = [s \in Stages |-> NotRun]
    /\ status_code' = 0
    /\ missing_input' = {}
    /\ scorer_read' = NoRead
    /\ posted' = NoPost
    /\ digest_after_score' = FALSE
    /\ UNCHANGED <<tweets_file, digest_file, fVars, dVars, sVars, nVars>>

\* subprocess.run(["python", "fetch_tweets.py"]): the script's __main__ block.
\* The list API answers 200 with some tweets, or another status; or the
\* script dies before save_tweets_for_analysis (no connection, a body that
\* is not the expected JSON).
FetchStage ==
    /\ pc = "fetch"
    /\ started' = Append(started, "fetch_tweets.py")
    /\ \/ \E status \in {HttpOk, 401, 500}, data_tweets \in SeqsUpTo(TweetPool, MaxFetch) :
            LET all_tweets == fetch_list_tweets(status, data_tweets)
                filtered_tweets == filter_tweets_by_engagement(all_tweets, MIN_LIKES)
            IN /\ status_code' = status
               /\ tweets_file' = written(filtered_tweets, run)
               /\ returncode' = [returncode EXCEPT !["fetch_tweets.py"] = 0]
               /\ pc' = after_subprocess_run(0, "analyze")
       \/ /\ status_code' = 0
          /\ tweets_file' = tweets_file
          /\ returncode' = [returncode EXCEPT !["fetch_tweets.py"] = 1]
          /\ pc' = after_subprocess_run(1, "analyze")
    /\ UNCHANGED <<run, digest_file, missing_input, scorer_read, posted,
                   digest_after_score, fVars, dVars, sVars, nVars>>

\* a load_tweets that takes an absent artifact for an empty one
load_tweets_or_empty(file) == [ok |-> TRUE, tweets |-> file.content]

\* load_tweets: ok is FALSE where open() raises FileNotFoundError
load_tweets(file) ==
    IF file.exists THEN [ok |-> TRUE, tweets |-> file.content]
    ELSE [ok |-> FALSE, tweets |-> <<>>]

\* subprocess.run(["python", "analyze_tweets.py"]): the script's __main__ block.
\* It dies in load_tweets when the intermediate artifact is absent, or in a
\* chat-completion call that raises; otherwise every tweet gets a response
\* and the digest is written.
AnalyzeStage ==
    /\ pc = "analyze"
    /\ started' = Append(started, "analyze_tweets.py")
    /\ missing_input' = IF tweets_file.exists THEN missing_input
                        ELSE missing_input \cup {"analyze_tweets.py"}
    /\ LET loaded == load_tweets(tweets_file)
       IN \/ /\ loaded.ok
             /\ scorer_read' = [done |-> TRUE, content |-> loaded.tweets,
                                writer |-> tweets_file.writer]
             /\ \E responses \in [1..Len(loaded.tweets) -> WorkflowResponses] :
                  LET analyses == [i \in 1..Len(loaded.tweets) |->
                                     analyze_tweet_relevance(loaded.tweets[i], responses[i])]
                  IN digest_file' = written(generate_digest(analyses), run)
             /\ digest_after_score' = TRUE
             /\ returncode' = [returncode EXCEPT !["analyze_tweets.py"] = 0]
             /\ pc' = after_subprocess_run(0, "check")
          \/ /\ scorer_read' = IF loaded.ok
                               THEN [done |-> TRUE, content |-> loaded.tweets,
                                     writer |-> tweets_file.writer]
                               ELSE scorer_read
             /\ digest_file' = digest_file
             /\ digest_after_score' = digest_file.exists
             /\ returncode' = [returncode EXCEPT !["analyze_tweets.py"] = 1]
             /\ pc' = after_subprocess_run(1, "check")
    /\ UNCHANGED <<run, tweets_file, status_code, posted, fVars, dVars, sVars, nVars>>

\* read_digest: ok is FALSE where open() raises FileNotFoundError
read_digest(file) ==
    IF file.exists THEN [ok |-> TRUE, digest |-> file.content]
    ELSE [ok |-> FALSE, digest |-> ""]

\* if os.path.exists("twitter_digest.md"): subprocess.run(["python",
\* "send_notification.py"]), the script's __main__ block. The webhook answers
\* with some status (the script exits 0 either way), or the post raises.
NotifyStage ==
    /\ pc = "check"
    /\ path_exists(digest_file)
    /\ started' = Append(started, "send_notification.py")
    /\ missing_input' = IF digest_file.exists THEN missing_input
                        ELSE missing_input \cup {"send_notification.py"}
    /\ LET read == read_digest(digest_file)
       IN \/ /\ read.ok
             /\ posted' = [done |-> TRUE, description |-> embed_description(read.digest),
                           writer |-> digest_file.writer]
             /\ returncode' = [returncode EXCEPT !["send_notification.py"] = 0]
             /\ pc' = after_subprocess_run(0, "finish")
          \/ /\ posted' = posted
             /\ returncode' = [returncode EXCEPT !["send_notification.py"] = 1]
             /\ pc' = after_subprocess_run(1, "finish")
    /\ UNCHANGED <<run, tweets_file, digest_file, status_code, scorer_read,
                   digest_after_score, fVars, dVars, sVars, nVars>>

\* else: print("No digest was generated - no relevant tweets found.")
SkipNotify ==
    /\ pc = "check"
    /\ ~path_exists(digest_file)
    /\ pc' = "finish"
    /\ UNCHANGED <<run, tweets_file, digest_file, started, returncode, status_code,
                   missing_input, scorer_read, posted, digest_after_score,
                   fVars, dVars, sVars, nVars>>

\* print("Workflow complete!")
WorkflowComplete ==
    /\ pc = "finish"
    /\ pc' = "complete"
    /\ UNCHANGED <<run, tweets_file, digest_file, started, returncode, status_code,
                   missing_input, scorer_read, posted, digest_after_score,
                   fVars, dVars, sVars, nVars>>

-----------------------------------------------------------------------------
(* The stages' functions on their own hold these while the pipeline runs *)

FilterIdle == f_tweets = <<>> /\ f_min_likes = 0 /\ f_result = [done |-> FALSE, value |-> <<>>]
DigestIdle == d_analyses = <<>> /\ d_digest = [done |-> FALSE, value |-> ""]
ScoreIdle == s_tweet = TweetA /\ s_response = "" /\ s_result = [done |-> FALSE, value |-> analyze_tweet_relevance(TweetA, "")]
NotifyIdle == n_digest = "" /\ n_payload = [done |-> FALSE, description |-> "", status_code |-> 0]

WorkflowIdle ==
    /\ pc = "idle"
    /\ run = 0
    /\ tweets_file = NoTweetsFile
    /\ digest_file = NoDigestFile
    /\ started = <<>>
    /\ returncode = [s \in Stages |-> NotRun]
    /\ status_code = 0
    /\ missing_input = {}
    /\ scorer_read = NoRead
    /\ posted = NoPost
    /\ digest_after_score = FALSE

Init == WorkflowIdle /\ FilterIdle /\ DigestIdle /\ ScoreIdle /\ NotifyIdle

RunStep == FetchStage \/ AnalyzeStage \/ NotifyStage \/ SkipNotify \/ WorkflowComplete

Next == StartWorkflow \/ RunStep

Spec == Init /\ [][Next]_vars

\* every stage script returns (the blocking calls answer, fail or time out),
\* so a started run takes its next step
FairSpec == Spec /\ WF_vars(RunStep)

-----------------------------------------------------------------------------
(* filter_tweets_by_engagement on its own *)

\* thresholds below, at and above the like counts of the pool
Thresholds == {0, 5, MIN_LIKES, 11, 16}

InitFilter ==
    /\ WorkflowIdle /\ DigestIdle /\ ScoreIdle /\ NotifyIdle
    /\ f_tweets \in SeqsUpTo(TweetPool, MaxTweets)
    /\ f_min_likes \in Thresholds
    /\ f_result = [done |-> FALSE, value |-> <<>>]

ApplyFilter ==
    /\ ~f_result.done
    /\ f_result' = [done |-> TRUE,
                    value |-> filter_tweets_by_engagement(f_tweets, f_min_likes)]
    /\ UNCHANGED <<f_tweets, f_min_likes, wfVars, dVars, sVars, nVars>>

NextFilter == ApplyFilter

SpecFilter == InitFilter /\ [][NextFilter]_vars

-----------------------------------------------------------------------------
(* generate_digest on its own *)

DigestResponses == {"Score: 6/10\nClose.", "Score: 7/10\nYes.", "Score: 9/10\nYes!", "n/a"}

\* the scored items analyze_tweet_relevance makes of two tweets
AnalysisPool ==
    {analyze_tweet_relevance(t, r) : t \in {TweetA, TweetC}, r \in DigestResponses}

InitDigest ==
    /\ WorkflowIdle /\ FilterIdle /\ ScoreIdle /\ NotifyIdle
    /\ d_analyses \in SeqsUpTo(AnalysisPool, MaxAnalyses)
    /\ d_digest = [done |-> FALSE, value |-> ""]

GenerateDigest ==
    /\ ~d_digest.done
    /\ d_digest' = [done |-> TRUE, value |-> generate_digest(d_analyses)]
    /\ UNCHANGED <<d_analyses, wfVars, fVars, sVars, nVars>>

NextDigest == GenerateDigest

SpecDigest == InitDigest /\ [][NextDigest]_vars

-----------------------------------------------------------------------------
(* analyze_tweet_relevance on its own *)

ScoreAlphabet == {"S", ":", " ", "/", "\n", "1", "0", "-"}

RECURSIVE StringsUpTo(_, _)
StringsUpTo(alphabet, n) ==
    IF n = 0 THEN {""}
    ELSE LET shorter == StringsUpTo(alphabet, n - 1)
         IN shorter \cup {s \o c : s \in {t \in shorter : Len(t) = n - 1}, c \in alphabet}

\* responses of the shape the prompt asks for, and others a model gives
ScoreExamples ==
    {"Score: 8/10\nOn topic.", "Score: 10/10", "Relevance: 7/10 - useful",
     "Score: 11/10\nOutstanding.", "Score: 0/10\nSpam.", "Score: -3/10",
     "Score: 8", "8/10", "Score: 8.5/10", "**Score:** 9/10",
     "  Score :  4 / 10  ", "\nScore: 8/10", "I cannot rate this."}

ScoreResponses == StringsUpTo(ScoreAlphabet, MaxRespLen) \cup ScoreExamples

InitScore ==
    /\ WorkflowIdle /\ FilterIdle /\ DigestIdle /\ NotifyIdle
    /\ s_tweet \in {TweetA, TweetB}
    /\ s_response \in ScoreResponses
    /\ s_result = [done |-> FALSE, value |-> analyze_tweet_relevance(TweetA, "")]

AnalyzeTweet ==
    /\ ~s_result.done
    /\ s_result' = [done |-> TRUE, value |-> analyze_tweet_relevance(s_tweet, s_response)]
    /\ UNCHANGED <<s_tweet, s_response, wfVars, fVars, dVars, nVars>>

NextScore == AnalyzeTweet

SpecScore == InitScore /\ [][NextScore]_vars

-----------------------------------------------------------------------------
(* send_to_discord on its own *)

\* s repeated until it has at least n characters
RECURSIVE RepeatedTo(_, _)
RepeatedTo(str, n) ==
    Call1(LAMBDA s : IF Len(s) >= n THEN s ELSE RepeatedTo(s \o s, n), str)

\* a text of n characters
Fill(pattern, n) == Prefix(RepeatedTo(pattern, n), n)

NotifyPatterns ==
    {digest_section(analyze_tweet_relevance(TweetA, "Score: 8/10")),
     digest_section(analyze_tweet_relevance(TweetC, "Score: 10/10")),
     NoRelevantSentinel, "."}

\* lengths from empty up, and on both sides of the limit
NotifyLengths ==
    (0..MaxNear) \cup ((DiscordLimit - MaxNear)..(DiscordLimit + MaxNear))

NotifyDigests == {Fill(pat, n) : pat \in NotifyPatterns, n \in NotifyLengths}

InitNotify ==
    /\ WorkflowIdle /\ FilterIdle /\ DigestIdle /\ ScoreIdle
    /\ n_digest \in NotifyDigests
    /\ n_payload = [done |-> FALSE, description |-> "", status_code |-> 0]

\* send_to_discord: the payload is built and posted, the webhook answers
SendToDiscord ==
    /\ ~n_payload.done
    /\ \E status \in {HttpNoContent, 400} :
         n_payload' = [done |-> TRUE, description |-> embed_description(n_digest),
                       status_code |-> status]
    /\ UNCHANGED <<n_digest, wfVars, fVars, dVars, sVars>>

NextNotify == SendToDiscord

SpecNotify == InitNotify /\ [][NextNotify]_vars

-----------------------------------------------------------------------------
(* Properties of run_full_workflow *)

Range(seq) == {seq[i] : i \in 1..Len(seq)}

FetchName == "fetch_tweets.py"
AnalyzeName == "analyze_tweets.py"
NotifyName == "send_notification.py"

RunEnded == run >= 1 /\ pc \in {"finish", "complete"}

\* C1: the notify stage is started only if twitter_digest.md existed when the
\* analyze stage ended; when it did not, the run goes from the check straight
\* to its end without starting a stage.
C1_NotifyOnlyIfDigestExists ==
    /\ [](NotifyName \in Range(started) => digest_after_score)
    /\ [][(pc = "check" /\ ~digest_file.exists)
            => (pc' = "finish" /\ started' = started)]_vars

C1_Witness ==
    /\ pc = "complete"
    /\ NotifyName \in Range(started)
    /\ digest_after_score
    /\ posted.done

\* C2: in every run the fetch stage and then the analyze stage are started
\* exactly once, in that order, whatever the exit status of the earlier stage;
\* the notify stage is started at most once, after them; and every run that
\* has begun reaches "Workflow complete".
C2_StagesOnceAndRunCompletes ==
    /\ [](pc = "fetch" => started = <<>>)
    /\ [](pc = "analyze" => started = <<FetchName>>)
    /\ [](pc = "check" => started = <<FetchName, AnalyzeName>>)
    /\ [](RunEnded => started \in {<<FetchName, AnalyzeName>>,
                                   <<FetchName, AnalyzeName, NotifyName>>})
    /\ [](pc \in {"idle", "fetch", "analyze", "check", "finish", "complete"})
    /\ [](pc = "fetch" => <>(pc = "complete"))

C2_Witness ==
    /\ pc = "complete"
    /\ returncode[FetchName] = 1
    /\ returncode[AnalyzeName] = 1
    /\ started = <<FetchName, AnalyzeName>>

\* C3 (as claimed): what the analyze stage reads and what the notify stage
\* posts in a run were written by that same run.
C3_ArtifactsFromSameRun ==
    /\ scorer_read.done => scorer_read.writer = run
    /\ posted.done => posted.writer = run

\* C4 (as claimed): no stage is started while the artifact it reads is absent.
C4_NoStageStartedWithoutInput == missing_input = {}

\* C4 (amended): the notify stage is never started while twitter_digest.md is
\* absent; the analyze stage is started in every run, also while
\* tweets_for_analysis.json is absent, and then exits with status 1 having
\* read nothing and written no digest.
C4_OnlyNotifyIsSkipped ==
    /\ NotifyName \notin missing_input
    /\ (pc \in {"check", "finish", "complete"} /\ run >= 1) => AnalyzeName \in Range(started)
    /\ AnalyzeName \in missing_input =>
          /\ returncode[AnalyzeName] = 1
          /\ ~scorer_read.done
          /\ digest_file.writer # run

C4_Witness ==
    /\ pc = "complete"
    /\ AnalyzeName \in missing_input
    /\ ~digest_file.exists
    /\ NotifyName \notin Range(started)

-----------------------------------------------------------------------------
(* Properties of filter_tweets_by_engagement *)

\* the positions of the input whose like count reaches the threshold
Kept(tweets, k) == {i \in 1..Len(tweets) : tweets[i].favorite_count >= k}

\* C5: the result holds exactly the items of the input with at least
\* min_likes likes, each once and in the order of the input (the n-th kept
\* position of the input is the n-th item of the result); the input is left
\* as it was.
C5_FilterKeepsExactlyTheEngaged ==
    /\ [](f_result.done =>
            LET kept == Kept(f_tweets, f_min_likes)
                out == f_result.value
            IN /\ Len(out) = Cardinality(kept)
               /\ \A i \in kept : out[Cardinality({j \in kept : j <= i})] = f_tweets[i])
    /\ [][f_tweets' = f_tweets]_vars

C5_Witness ==
    /\ f_result.done
    /\ f_min_likes = MIN_LIKES
    /\ f_tweets = <<TweetA, TweetB, TweetC>>
    /\ f_result.value = <<TweetA, TweetC>>

-----------------------------------------------------------------------------
(* Properties of generate_digest *)

HasHeader(digest) == Prefix(digest, Len(DigestHeader)) = DigestHeader

\* a text cut behind each separator line
RECURSIVE SplitSections(_)
SplitSections(str) ==
    Call1(LAMBDA s :
            IF s = "" THEN <<>>
            ELSE Call1(LAMBDA p :
                         IF p = 0 THEN <<s>>
                         ELSE <<Prefix(s, p + Len(SectionSeparator) - 1)>>
                                \o SplitSections(Suffix(s, p + Len(SectionSeparator) - 1)),
                       Find(s, SectionSeparator)),
          str)

\* the sections of a rendered digest, in the order they appear
Sections(digest) ==
    IF HasHeader(digest) THEN SplitSections(Suffix(digest, Len(DigestHeader))) ELSE <<>>

\* sec is the section of item: its heading names the author and the score,
\* and it carries the text and the permalink
IsSectionOf(sec, item) ==
    /\ Find(sec, "## @" \o item.tweet.user.screen_name \o ": "
                   \o ToString(item.score) \o "/10 Relevance\n") = 1
    /\ Find(sec, "\n" \o item.tweet.full_text \o "\n") > 0
    /\ Find(sec, "[View Tweet](" \o item.tweet_url \o ")") > 0

\* the score a section's heading shows
SectionScore(sec) ==
    LET heading == split_first(sec, "\n")
        from == Find(heading, ": ") + 2
        to == Find(heading, "/10 Relevance") - 1
    IN py_int(SubSeq(heading, from, to)).val

SameItem(a, b) == a.tweet = b.tweet /\ a.score = b.score

\* C6: an item scored 6 or less has no section in the digest; an item scored
\* 7 or more has exactly one (as many sections show it as the input holds
\* items equal to it), and the digest has no other sections.
C6_CutoffDecidesSections ==
    d_digest.done =>
        LET secs == Sections(d_digest.value)
            n == Len(d_analyses)
        IN /\ \A i \in 1..n :
                LET shown == Cardinality({k \in 1..Len(secs) :
                                            IsSectionOf(secs[k], d_analyses[i])})
                    given == Cardinality({j \in 1..n : SameItem(d_analyses[j], d_analyses[i])})
                IN IF d_analyses[i].score >= RelevanceCutoff THEN shown = given
                   ELSE shown = 0
           /\ Len(secs) = Cardinality({i \in 1..n : d_analyses[i].score >= RelevanceCutoff})

C6_Witness ==
    /\ d_digest.done
    /\ Len(d_analyses) = 3
    /\ d_analyses[1].score = RelevanceCutoff - 1
    /\ d_analyses[2].score = RelevanceCutoff
    /\ d_analyses[3].score = 0
    /\ Len(Sections(d_digest.value)) = 1

\* the place of input item i among the sections: behind the items scored
\* higher and the earlier items scored the same
Rank(analyses, i) ==
    1 + Cardinality({j \in 1..Len(analyses) :
                       /\ analyses[j].score >= RelevanceCutoff
                       /\ \/ analyses[j].score > analyses[i].score
                          \/ analyses[j].score = analyses[i].score /\ j < i})

\* C7: the sections appear in non-increasing order of score, and items of
\* equal score appear in the order of the input.
C7_SectionsSortedStably ==
    d_digest.done =>
        LET secs == Sections(d_digest.value)
        IN /\ \A k, l \in 1..Len(secs) :
                k < l => SectionScore(secs[k]) >= SectionScore(secs[l])
           /\ \A i \in 1..Len(d_analyses) :
                d_analyses[i].score >= RelevanceCutoff =>
                    /\ Rank(d_analyses, i) <= Len(secs)
                    /\ IsSectionOf(secs[Rank(d_analyses, i)], d_analyses[i])

C7_Witness ==
    /\ d_digest.done
    /\ Len(d_analyses) = 3
    /\ d_analyses[1].tweet = TweetA /\ d_analyses[1].score = 7
    /\ d_analyses[2].tweet = TweetC /\ d_analyses[2].score = 7
    /\ d_analyses[3].tweet = TweetA /\ d_analyses[3].score = 9
    /\ Len(Sections(d_digest.value)) = 3

NoneRelevant(analyses) ==
    \A i \in 1..Len(analyses) : analyses[i].score < RelevanceCutoff

\* C10: generate_digest returns the fixed sentinel exactly when no item
\* reaches the cutoff (the empty input included); what it returns is never
\* empty and never a heading without sections.
C10_SentinelIffNothingRelevant ==
    d_digest.done =>
        /\ NoneRelevant(d_analyses) <=> d_digest.value = NoRelevantSentinel
        /\ d_digest.value # ""
        /\ d_digest.value # DigestHeader
        /\ ~NoneRelevant(d_analyses) =>
              HasHeader(d_digest.value) /\ Sections(d_digest.value) # <<>>

C10_Witness ==
    /\ d_digest.done
    /\ Len(d_analyses) = 2
    /\ d_analyses[1].score = RelevanceCutoff - 1
    /\ d_analyses[2].score = 0
    /\ d_digest.value = NoRelevantSentinel

-----------------------------------------------------------------------------
(* Properties of analyze_tweet_relevance *)

\* the first line of the response reads `label: score/10`
HasScoreLine(response) ==
    LET line == strip(split_first(response, "\n"))
        colon == Find(line, ":")
        rest == strip(Suffix(line, colon))
        slash == Find(rest, "/10")
    IN /\ colon > 1
       /\ slash > 1
       /\ AllDigits(strip(Prefix(rest, slash - 1)))

\* C8 (as claimed): the score is an integer in 1..10, or 0 when the first
\* line is not `label: score/10`; then the raw response is kept as the
\* rationale and the item has no section in the digest.
C8_ScoreInRangeOrZero ==
    s_result.done =>
        LET item == s_result.value
        IN /\ item.score \in 0..10
           /\ ~HasScoreLine(s_response) =>
                 /\ item.score = 0
                 /\ item.analysis = s_response
                 /\ generate_digest(<<item>>) = NoRelevantSentinel

-----------------------------------------------------------------------------
(* Properties of send_to_discord *)

\* C9: a digest longer than the limit is posted as its first 2000 characters
\* followed by "..."; a digest of at most 2000 characters is posted as it is.
C9_TruncatedAtLimit ==
    n_payload.done =>
        LET desc == n_payload.description
        IN IF Len(n_digest) > DiscordLimit
           THEN /\ Len(desc) = DiscordLimit + 3
                /\ SubSeq(desc, 1, DiscordLimit) = SubSeq(n_digest, 1, DiscordLimit)
                /\ SubSeq(desc, DiscordLimit + 1, DiscordLimit + 3) = "..."
           ELSE desc = n_digest

C9_Witness ==
    /\ n_payload.done
    /\ Len(n_digest) = DiscordLimit + 1
    /\ Len(n_payload.description) = DiscordLimit + 3
    /\ n_payload.description # n_digest

====
